---- MODULE Spec2Model ----
(***************************************************************************)
(* Model of the local resource / reputation engine of rust-lrc:            *)
(*   resources/interface.rs, decaying_average.rs, resource_bucketing.rs,   *)
(*   reputation_tracker.rs, target_tracker.rs, resource_manager.rs.        *)
(*                                                                         *)
(* Conventions.                                                            *)
(*  - Amounts (u64 msat) are counted in units of 10^9 msat, so that        *)
(*    MAX_MILLI_SATOSHI = 21_000_000 * 1000 msat is 21 units.              *)
(*  - u64 arithmetic is kept modulo U64Modulus (the width is scaled down   *)
(*    from 2^64; U64Modulus stays far above every amount, fee and period   *)
(*    the model uses, as 2^64 does in the program).  A build with overflow *)
(*    checks (overflow_checks = TRUE, the debug profile) panics where a    *)
(*    build without them wraps.                                            *)
(*  - Instants are whole seconds; f64 values are integers (every product   *)
(*    and quotient the model forms is exact).                              *)
(***************************************************************************)
EXTENDS Integers, Sequences, FiniteSets, TLC

VARIABLES
    channel_reputation, \* ResourceManager.channel_reputation: scid -> ReputationTracker
    target_channels,    \* ResourceManager.target_channels: scid -> TargetChannelTracker
    buckets,            \* allocator handle -> MutBucketResourceManager (+ mutex poison flag)
    now,                \* the value Instant::now() returns
    overflow_checks,    \* TRUE: arithmetic overflow panics; FALSE: it wraps
    aborted,            \* a handler of the ResourceManager panicked
    calls,              \* number of handler calls made so far
    ret,                \* the last call: its arguments, what it returned (and, for
                        \* resolve_htlc, the record it took out of the in-flight map)
    prev_buckets,       \* buckets as they were before the last call
    admitted,           \* (channel, index) pairs forwarded and not yet resolved with Ok
    duplicates,         \* some forward_htlc named a pair that was in flight already
    average,            \* a DecayingAverage used on its own
    threads,            \* thread -> the ResourceBucketer call it is in and how far it is
    mutex,              \* the thread holding mut_bucket_resource_manager's lock, 0 if free
    returned            \* how many add_htlc calls returned true, remove_htlc calls Ok

vars == <<channel_reputation, target_channels, buckets, now, overflow_checks,
          aborted, calls, ret, prev_buckets, admitted, duplicates,
          average, threads, mutex, returned>>

----------------------------------------------------------------------------
(* Bounds of the model. *)

MaxCalls == 3
MaxTime == 90
AverageMaxTime == 4
U64Modulus == 32768

(* Program constants. *)

\* resource_manager.rs:14, in units of 10^9 msat
MAX_MILLI_SATOSHI == 21
\* resource_bucketing.rs:35
MAX_SLOTS == 483
\* reputation_tracker.rs:38 / ManagerConfig::default, seconds
RESOLUTION_PERIOD == 90
\* reputation_tracker.rs:37 / ManagerConfig::default, seconds
BLOCK_TIME == 600

----------------------------------------------------------------------------
(* interface.rs: value types *)

Endorsement == {"EndorsementNone", "EndorsementFalse", "EndorsementTrue"}

ForwardOutcome == {"ForwardOutcomeNoResources", "ForwardOutcomeUnendorsed",
                   "ForwardOutcomeEndorsed"}

\* ProposedHTLC::forwarding_fee: incoming_amount_msat - outgoing_amount_msat on u64
forwarding_fee_overflows(p) == p.incoming_amount_msat < p.outgoing_amount_msat

forwarding_fee(p) == (p.incoming_amount_msat - p.outgoing_amount_msat) % U64Modulus

\* sufficient_reputation with a tie counted as sufficient
sufficient_reputation_tie_passes(check) ==
    check.incoming_reputation.incoming_revenue >=
        check.outgoing_revenue + check.incoming_reputation.in_flight_risk + check.htlc_risk

\* ReputationCheck::sufficient_reputation
sufficient_reputation(check) ==
    check.incoming_reputation.incoming_revenue >
        check.outgoing_revenue + check.incoming_reputation.in_flight_risk + check.htlc_risk

----------------------------------------------------------------------------
(* decaying_average.rs *)

\* calculate_decay_rate and powf: value * (0.5^(2/period))^dt.  A period of 0
\* gives the rate 0.5^inf = 0, so any dt > 0 decays the value to 0.
decay(value, period, dt) ==
    IF dt = 0 THEN value
    ELSE IF period = 0 THEN 0
    ELSE value \div (2 ^ ((2 * dt) \div period))

\* DecayingAverage::new
DecayingAverage_new(period, start_value, t) ==
    IF start_value.value # 0
    THEN [last_update |-> start_value.last_update, value |-> start_value.value,
          period |-> period]
    ELSE [last_update |-> t, value |-> 0, period |-> period]

\* DecayingAverage::update: the difference is taken between update_time and itself
update(da, update_time) ==
    LET last_update_diff == update_time - update_time IN
    IF last_update_diff = 0 THEN da
    ELSE [da EXCEPT !.value = decay(da.value, da.period, last_update_diff),
                    !.last_update = update_time]

\* add_time without its test of the timestamp
add_time_any_order(da, value, specific_timestamp) ==
    LET u == update(da, specific_timestamp) IN
    [da |-> [u EXCEPT !.value = u.value + value, !.last_update = specific_timestamp],
     ok |-> TRUE]

\* DecayingAverage::add_time: last_update.checked_duration_since(t) is Some
\* exactly when last_update >= t, and then the call is refused
add_time(da, value, specific_timestamp) ==
    IF da.last_update >= specific_timestamp
    THEN [da |-> da, ok |-> FALSE]
    ELSE LET u == update(da, specific_timestamp) IN
         [da |-> [u EXCEPT !.value = u.value + value,
                           !.last_update = specific_timestamp],
          ok |-> TRUE]

\* DecayingAverage::add: the Result of add_time is dropped
add(da, value, t) == add_time(da, value, t).da

\* DecayingAverage::get_value
get_value(da, t) == [da |-> update(da, t), value |-> update(da, t).value]

----------------------------------------------------------------------------
(* resource_bucketing.rs *)

\* BucketResourceManager::new (the products are u64)
BucketResourceManager_new(total_liquidity_msat, total_slots, protected_percentage) ==
    IF total_slots > MAX_SLOTS THEN [result |-> "ProtocolLimits"]
    ELSE IF protected_percentage > 100 THEN [result |-> "ProtectedPercentage"]
    ELSE LET protected_liquidity ==
                 ((total_liquidity_msat * protected_percentage) % U64Modulus) \div 100
             protected_slots == (total_slots * protected_percentage) \div 100
         IN [result |-> "Ok",
             bucket |-> [general_liquidity_msat |-> total_liquidity_msat - protected_liquidity,
                         general_slots |-> total_slots - protected_slots,
                         in_flight_liquidity_msat |-> 0,
                         in_flight_slots |-> 0,
                         poisoned |-> FALSE]]

\* BucketResourceManager::new line 43: total_liquidity_msat * protected_percentage on u64
BucketResourceManager_new_overflows(total_liquidity_msat, protected_percentage) ==
    total_liquidity_msat * protected_percentage >= U64Modulus

\* add_htlc without its test of the slots
add_htlc_no_slot_test(b, protected, htlc_amount_msat, checks) ==
    IF protected \/ b.poisoned THEN [bucket |-> b, result |-> "true"]
    ELSE IF checks /\ b.in_flight_liquidity_msat + htlc_amount_msat >= U64Modulus
    THEN [bucket |-> [b EXCEPT !.poisoned = TRUE], result |-> "panic"]
    ELSE IF (b.in_flight_liquidity_msat + htlc_amount_msat) % U64Modulus
                > b.general_liquidity_msat
    THEN [bucket |-> b, result |-> "false"]
    ELSE [bucket |-> [b EXCEPT
              !.in_flight_liquidity_msat =
                  (b.in_flight_liquidity_msat + htlc_amount_msat) % U64Modulus,
              !.in_flight_slots = b.in_flight_slots + 1],
          result |-> "true"]

\* BucketResourceManager::add_htlc.  result is "true", "false" or "panic"; a
\* panic happens while the mutex guard is held and poisons the mutex, after
\* which lock() is Err and the if-let body is skipped.
add_htlc(b, protected, htlc_amount_msat, checks) ==
    IF protected THEN [bucket |-> b, result |-> "true"]
    ELSE IF b.poisoned THEN [bucket |-> b, result |-> "true"]
    ELSE IF checks /\ b.in_flight_liquidity_msat + htlc_amount_msat >= U64Modulus
    THEN [bucket |-> [b EXCEPT !.poisoned = TRUE], result |-> "panic"]
    ELSE IF (b.in_flight_liquidity_msat + htlc_amount_msat) % U64Modulus
                > b.general_liquidity_msat
    THEN [bucket |-> b, result |-> "false"]
    ELSE IF b.in_flight_slots + 1 > b.general_slots
    THEN [bucket |-> b, result |-> "false"]
    ELSE [bucket |-> [b EXCEPT
              !.in_flight_liquidity_msat =
                  (b.in_flight_liquidity_msat + htlc_amount_msat) % U64Modulus,
              !.in_flight_slots = b.in_flight_slots + 1],
          result |-> "true"]

\* BucketResourceManager::remove_htlc.  result is "Ok" or the ErrBucketing.
remove_htlc(b, protected, htlc_amount_msat) ==
    IF protected THEN [bucket |-> b, result |-> "Ok"]
    ELSE IF b.poisoned THEN [bucket |-> b, result |-> "Ok"]
    ELSE IF b.in_flight_liquidity_msat < htlc_amount_msat
    THEN [bucket |-> b, result |-> "NoInFlightLiquidity"]
    ELSE IF b.in_flight_slots = 0
    THEN [bucket |-> b, result |-> "NoHTLCSlotsOccupied"]
    ELSE [bucket |-> [b EXCEPT
              !.in_flight_liquidity_msat = b.in_flight_liquidity_msat - htlc_amount_msat,
              !.in_flight_slots = b.in_flight_slots - 1],
          result |-> "Ok"]

----------------------------------------------------------------------------
(* reputation_tracker.rs *)

\* HashMap::new / HashMap::insert / HashMap::remove
EmptyMap == [x \in {} |-> TRUE]

MapInsert(m, k, v) == [x \in DOMAIN m \cup {k} |-> IF x = k THEN v ELSE m[x]]

\* a remove that leaves the entry in the map
MapRemove_nothing(m, k) == m

MapRemove(m, k) == [x \in DOMAIN m \ {k} |-> m[x]]

\* ReputationTracker::new
ReputationTracker_new(t) ==
    [revenue |-> DecayingAverage_new(0, [last_update |-> t, value |-> 0], t),
     in_flight_htlcs |-> EmptyMap,
     block_time |-> BLOCK_TIME,
     resolution_period |-> RESOLUTION_PERIOD]

\* ReputationTracker::outstanding_risk
outstanding_risk(block_time, proposed_htlc, resolution_period) ==
    (forwarding_fee(proposed_htlc) * proposed_htlc.cltv_expiry_delta * block_time * 60)
        \div resolution_period

RECURSIVE SumRisk(_, _)
SumRisk(rep, keys) ==
    IF keys = {} THEN 0
    ELSE LET k == CHOOSE x \in keys : TRUE
             val == rep.in_flight_htlcs[k]
         IN (IF val.proposed_htlc.incoming_endorsed # "EndorsementTrue" THEN 0
             ELSE outstanding_risk(rep.block_time, val.proposed_htlc, rep.resolution_period))
            + SumRisk(rep, keys \ {k})

\* ReputationTracker::in_flight_htlc_risk
in_flight_htlc_risk(rep) == SumRisk(rep, DOMAIN rep.in_flight_htlcs)

\* Instant - Instant saturates at zero, then Duration::as_secs
resolution_time_of(timestamp_settled, htlc) ==
    IF timestamp_settled >= htlc.timestamp_added
    THEN timestamp_settled - htlc.timestamp_added ELSE 0

\* ReputationTracker::effective_fees line 69: resolution_time - resolution_period_sec on u64
effective_fees_overflows(resolution_period, timestamp_settled, htlc) ==
    resolution_time_of(timestamp_settled, htlc) < resolution_period

\* ReputationTracker::effective_fees (the value a build without overflow checks computes)
effective_fees(resolution_period, timestamp_settled, htlc, success) ==
    LET resolution_time == resolution_time_of(timestamp_settled, htlc)
        fee == forwarding_fee(htlc.proposed_htlc)
        opportunity_cost ==
            (((resolution_time - resolution_period) % U64Modulus) \div resolution_period) * fee
    IN IF htlc.proposed_htlc.incoming_endorsed = "EndorsementTrue" /\ success
       THEN fee - opportunity_cost
       ELSE IF htlc.proposed_htlc.incoming_endorsed = "EndorsementTrue"
       THEN (-1) * opportunity_cost
       ELSE IF success
       THEN (IF resolution_time <= resolution_period THEN fee ELSE 0)
       ELSE 0

\* add_inflight refusing an HTLC it cannot take (here: any endorsed one), after the
\* TargetChannelTracker has booked it
ReputationTracker_add_inflight_refusing(rep, proposed_htlc, outgoing_decision, t) ==
    IF proposed_htlc.incoming_endorsed = "EndorsementTrue"
    THEN [tracker |-> rep, ok |-> FALSE]
    ELSE [tracker |-> [rep EXCEPT !.in_flight_htlcs =
                          MapInsert(rep.in_flight_htlcs, proposed_htlc.incoming_index,
                                    [timestamp_added |-> t,
                                     outgoing_decision |-> outgoing_decision,
                                     proposed_htlc |-> proposed_htlc])],
          ok |-> TRUE]

\* add_inflight recording only what was given resources: an HTLC with outcome
\* NoResources leaves no record
ReputationTracker_add_inflight_admitted_only(rep, proposed_htlc, outgoing_decision, t) ==
    IF outgoing_decision = "ForwardOutcomeNoResources"
    THEN [tracker |-> rep, ok |-> TRUE]
    ELSE [tracker |-> [rep EXCEPT !.in_flight_htlcs =
                          MapInsert(rep.in_flight_htlcs, proposed_htlc.incoming_index,
                                    [timestamp_added |-> t,
                                     outgoing_decision |-> outgoing_decision,
                                     proposed_htlc |-> proposed_htlc])],
          ok |-> TRUE]

\* ReputationMonitor::add_inflight for ReputationTracker
ReputationTracker_add_inflight(rep, proposed_htlc, outgoing_decision, t) ==
    [tracker |-> [rep EXCEPT !.in_flight_htlcs =
                      MapInsert(rep.in_flight_htlcs, proposed_htlc.incoming_index,
                                [timestamp_added |-> t,
                                 outgoing_decision |-> outgoing_decision,
                                 proposed_htlc |-> proposed_htlc])],
     ok |-> TRUE]

\* resolve_inflight leaving the record of an HTLC forwarded with NoResources where
\* it is, as for an index it does not know
ReputationTracker_resolve_inflight_keeping(rep, resolved_htlc, t, checks) ==
    IF /\ resolved_htlc.incoming_index \in DOMAIN rep.in_flight_htlcs
       /\ rep.in_flight_htlcs[resolved_htlc.incoming_index].outgoing_decision
              # "ForwardOutcomeNoResources"
    THEN LET in_flight_htlc == rep.in_flight_htlcs[resolved_htlc.incoming_index]
             removed == [rep EXCEPT !.in_flight_htlcs =
                            MapRemove(rep.in_flight_htlcs, resolved_htlc.incoming_index)]
         IN IF checks /\ effective_fees_overflows(rep.resolution_period,
                                                  resolved_htlc.timestamp_settled,
                                                  in_flight_htlc)
            THEN [tracker |-> removed, result |-> "panic", in_flight |-> in_flight_htlc]
            ELSE [tracker |-> [removed EXCEPT !.revenue =
                                  add(removed.revenue,
                                      effective_fees(rep.resolution_period,
                                                     resolved_htlc.timestamp_settled,
                                                     in_flight_htlc, resolved_htlc.success),
                                      t)],
                  result |-> "Ok", in_flight |-> in_flight_htlc]
    ELSE [tracker |-> rep, result |-> "ResolutionNotFound"]

\* ReputationMonitor::resolve_inflight for ReputationTracker.  result is "Ok",
\* "ResolutionNotFound" or "panic"; the entry is removed before effective_fees runs.
ReputationTracker_resolve_inflight(rep, resolved_htlc, t, checks) ==
    IF resolved_htlc.incoming_index \in DOMAIN rep.in_flight_htlcs
    THEN LET in_flight_htlc == rep.in_flight_htlcs[resolved_htlc.incoming_index]
             removed == [rep EXCEPT !.in_flight_htlcs =
                            MapRemove(rep.in_flight_htlcs, resolved_htlc.incoming_index)]
         IN IF checks /\ effective_fees_overflows(rep.resolution_period,
                                                  resolved_htlc.timestamp_settled,
                                                  in_flight_htlc)
            THEN [tracker |-> removed, result |-> "panic", in_flight |-> in_flight_htlc]
            ELSE [tracker |-> [removed EXCEPT !.revenue =
                                  add(removed.revenue,
                                      effective_fees(rep.resolution_period,
                                                     resolved_htlc.timestamp_settled,
                                                     in_flight_htlc, resolved_htlc.success),
                                      t)],
                  result |-> "Ok", in_flight |-> in_flight_htlc]
    ELSE [tracker |-> rep, result |-> "ResolutionNotFound"]

\* ReputationMonitor::incoming_reputation for ReputationTracker
incoming_reputation(rep, t) ==
    [incoming_revenue |-> get_value(rep.revenue, t).value,
     in_flight_risk |-> in_flight_htlc_risk(rep)]

----------------------------------------------------------------------------
(* target_tracker.rs *)

\* TargetChannelTracker::new
TargetChannelTracker_new(start_value, resource_buckets, t) ==
    [revenue |-> DecayingAverage_new(0, start_value, t),
     resource_buckets |-> resource_buckets,
     block_time |-> BLOCK_TIME,
     resolution_period |-> RESOLUTION_PERIOD]

\* TargetMonitor::add_inflight for TargetChannelTracker.  b is the allocator
\* behind self.resource_buckets; result is "Ok" or "panic".
TargetChannelTracker_add_inflight(tgt, b, incoming_rep, proposed_htlc, t, checks) ==
    IF checks /\ forwarding_fee_overflows(proposed_htlc)
    THEN [bucket |-> b, result |-> "panic"]
    ELSE
    LET reputation_check ==
            [incoming_reputation |-> incoming_rep,
             outgoing_revenue |-> get_value(tgt.revenue, t).value,
             htlc_risk |-> outstanding_risk(tgt.block_time, proposed_htlc,
                                            tgt.resolution_period)]
        htlc_protected == sufficient_reputation(reputation_check)
                          /\ proposed_htlc.incoming_endorsed = "EndorsementTrue"
        added == add_htlc(b, htlc_protected, proposed_htlc.outgoing_amount_msat, checks)
        outcome == IF added.result = "false" THEN "ForwardOutcomeNoResources"
                   ELSE IF htlc_protected THEN "ForwardOutcomeEndorsed"
                   ELSE "ForwardOutcomeUnendorsed"
    IN IF added.result = "panic"
       THEN [bucket |-> added.bucket, result |-> "panic"]
       ELSE [bucket |-> added.bucket, result |-> "Ok",
             decision |-> [reputation_check |-> reputation_check,
                           forward_outcome |-> outcome]]

\* TargetMonitor::resolve_inflight for TargetChannelTracker: the Result of
\* remove_htlc is dropped
TargetChannelTracker_resolve_inflight(tgt, b, resolved_htlc, in_flight_htlc, t) ==
    IF in_flight_htlc.outgoing_decision = "ForwardOutcomeNoResources"
    THEN [tracker |-> tgt, bucket |-> b, result |-> "Err"]
    ELSE [tracker |-> IF resolved_htlc.success
                      THEN [tgt EXCEPT !.revenue =
                               add(tgt.revenue, forwarding_fee(in_flight_htlc.proposed_htlc), t)]
                      ELSE tgt,
          bucket |-> remove_htlc(b,
                         in_flight_htlc.outgoing_decision = "ForwardOutcomeEndorsed",
                         in_flight_htlc.proposed_htlc.outgoing_amount_msat).bucket,
          result |-> "Ok"]

----------------------------------------------------------------------------
(* resource_manager.rs *)

\* ResourceManager::forward_htlc: what the call returns and the maps it leaves.
\* The TargetChannelTracker is looked up under proposed_htlc.incoming_channel.
forward_htlc_result(proposed_htlc) ==
    LET unchanged(res) == [result |-> res, channel_reputation |-> channel_reputation,
                           target_channels |-> target_channels, buckets |-> buckets]
        ic == proposed_htlc.incoming_channel
    IN
    IF proposed_htlc.outgoing_amount_msat > MAX_MILLI_SATOSHI THEN unchanged("Err")
    ELSE IF ic \in DOMAIN channel_reputation /\ ic \in DOMAIN target_channels
    THEN LET rep == [channel_reputation[ic] EXCEPT
                        !.revenue = get_value(channel_reputation[ic].revenue, now).da]
             tgt == [target_channels[ic] EXCEPT
                        !.revenue = get_value(target_channels[ic].revenue, now).da]
             h == tgt.resource_buckets
             d == TargetChannelTracker_add_inflight(tgt, buckets[h],
                      incoming_reputation(channel_reputation[ic], now),
                      proposed_htlc, now, overflow_checks)
             a == ReputationTracker_add_inflight(rep, proposed_htlc,
                      d.decision.forward_outcome, now)
         IN IF d.result = "panic"
            THEN [result |-> "panic",
                  channel_reputation |-> [channel_reputation EXCEPT ![ic] = rep],
                  target_channels |-> [target_channels EXCEPT ![ic] = tgt],
                  buckets |-> [buckets EXCEPT ![h] = d.bucket]]
            ELSE [result |-> IF a.ok THEN "Ok" ELSE "Err",
                  decision |-> d.decision,
                  channel_reputation |-> [channel_reputation EXCEPT ![ic] = a.tracker],
                  target_channels |-> [target_channels EXCEPT ![ic] = tgt],
                  buckets |-> [buckets EXCEPT ![h] = d.bucket]]
    ELSE unchanged("Err")

\* ResourceManager::resolve_htlc: what the call returns and the maps it leaves
resolve_htlc_result(resolved_htlc) ==
    LET unchanged(res) == [result |-> res, channel_reputation |-> channel_reputation,
                           target_channels |-> target_channels, buckets |-> buckets]
        ic == resolved_htlc.incoming_channel
    IN
    IF ic \in DOMAIN channel_reputation
    THEN LET r == ReputationTracker_resolve_inflight(channel_reputation[ic], resolved_htlc,
                                                     now, overflow_checks)
             removed(res) == [result |-> res,
                              channel_reputation |-> [channel_reputation EXCEPT ![ic] = r.tracker],
                              target_channels |-> target_channels, buckets |-> buckets]
         IN IF r.result = "ResolutionNotFound" THEN unchanged("Err")
            ELSE IF r.result = "panic" THEN removed("panic")
            ELSE IF r.in_flight.outgoing_decision = "ForwardOutcomeNoResources"
            THEN removed("Err")
            ELSE IF r.in_flight.proposed_htlc.outgoing_channel # resolved_htlc.outgoing_channel
            THEN removed("Err")
            ELSE LET oc == r.in_flight.proposed_htlc.outgoing_channel IN
                 IF oc \in DOMAIN target_channels
                 THEN LET h == target_channels[oc].resource_buckets
                          t == TargetChannelTracker_resolve_inflight(target_channels[oc],
                                   buckets[h], resolved_htlc, r.in_flight, now)
                      IN [result |-> IF t.result = "Err" THEN "Err" ELSE "Ok",
                          in_flight |-> r.in_flight,
                          channel_reputation |-> [channel_reputation EXCEPT ![ic] = r.tracker],
                          target_channels |-> [target_channels EXCEPT ![oc] = t.tracker],
                          buckets |-> [buckets EXCEPT ![h] = t.bucket]]
                 ELSE [result |-> "Ok", in_flight |-> r.in_flight,
                       channel_reputation |-> [channel_reputation EXCEPT ![ic] = r.tracker],
                       target_channels |-> target_channels, buckets |-> buckets]
    ELSE unchanged("Err")

----------------------------------------------------------------------------
(* The ResourceManager as a state machine: its callers' inputs *)

Chans == {1, 2}

Indices == {0, 1}

TickSteps == {90}

\* <<incoming_channel, outgoing_channel>> of the HTLCs the peers propose
Routes == {<<1, 1>>, <<1, 2>>, <<2, 1>>}

\* <<incoming_endorsed, incoming_amount_msat, outgoing_amount_msat>>: fee 1 with and
\* without endorsement (EndorsementNone is read like EndorsementFalse everywhere, as
\* "not EndorsementTrue")
Payments == {<<"EndorsementFalse", 2, 1>>, <<"EndorsementTrue", 2, 1>>}

\* an amount above MAX_MILLI_SATOSHI, an outgoing amount above the incoming one
OddPayments == {<<"EndorsementFalse", 22, 22>>, <<"EndorsementTrue", 1, 2>>}

Proposed(route, index, payment) ==
    [incoming_channel |-> route[1], outgoing_channel |-> route[2],
     incoming_index |-> index, incoming_endorsed |-> payment[1],
     incoming_amount_msat |-> payment[2], outgoing_amount_msat |-> payment[3],
     cltv_expiry_delta |-> 1]

\* <<route, incoming_index>> of the HTLCs: channel 1 offers two at a time,
\* channel 2 one
Offers == {k \in Routes \X Indices : k[1][1] = 1 \/ k[2] = 0}

ProposedHTLCs ==
    {Proposed(k[1], k[2], p) : k \in Offers, p \in Payments}
    \cup {Proposed(<<1, 1>>, 0, p) : p \in OddPayments}

\* the caller stamps a resolution with the time at which it reports it
ResolvedHTLCs ==
    {[timestamp_settled |-> now, incoming_index |-> k[2], incoming_channel |-> k[1][1],
      outgoing_channel |-> k[1][2], success |-> s] :
        k \in Offers, s \in BOOLEAN}

NoCall == [op |-> "none", result |-> "none"]

\* The keys <<channel, index>> of the in-flight records of every ReputationTracker
InFlightOf(reputation) ==
    {<<c, i>> \in Chans \X Indices :
        c \in DOMAIN reputation /\ i \in DOMAIN reputation[c].in_flight_htlcs}

InFlight == InFlightOf(channel_reputation)

RecordOf(key) == channel_reputation[key[1]].in_flight_htlcs[key[2]]

\* the objects a specification does not use
NoAverage == [last_update |-> 0, value |-> 0, period |-> 0]

NoneReturned == [add_htlc |-> 0, remove_htlc |-> 0]

\* the channels registered when the model starts and the revenue their
\* ReputationTrackers hold: none, or what earlier forwards have earned the channel
\* (twice the risk of one HTLC of fee 1)
Starts == {[registered |-> {1}, earned |-> 0], [registered |-> Chans, earned |-> 0],
           [registered |-> Chans, earned |-> 800]}

\* total liquidity and total slots of each channel's allocator: half of it is general
BucketTotals == [h \in Chans |-> IF h = 1 THEN 4 ELSE 2]

Init ==
    /\ now = 0
    /\ overflow_checks \in BOOLEAN
    /\ \E start \in Starts :
         /\ channel_reputation =
                [c \in start.registered |->
                    [ReputationTracker_new(0) EXCEPT !.revenue.value = start.earned]]
         /\ target_channels =
                [c \in start.registered |->
                    TargetChannelTracker_new([last_update |-> 0, value |-> 0], c, 0)]
    /\ buckets = [h \in Chans |->
                      BucketResourceManager_new(BucketTotals[h], BucketTotals[h], 50).bucket]
    /\ aborted = FALSE
    /\ calls = 0
    /\ ret = NoCall
    /\ prev_buckets = buckets
    /\ admitted = {}
    /\ duplicates = FALSE
    /\ average = NoAverage
    /\ threads = EmptyMap
    /\ mutex = 0
    /\ returned = NoneReturned

forward_htlc(proposed_htlc) ==
    /\ ~aborted
    /\ calls < MaxCalls
    /\ LET r == forward_htlc_result(proposed_htlc)
           key == <<proposed_htlc.incoming_channel, proposed_htlc.incoming_index>>
       IN /\ channel_reputation' = r.channel_reputation
          /\ target_channels' = r.target_channels
          /\ buckets' = r.buckets
          /\ aborted' = (r.result = "panic")
          /\ ret' = IF r.result = "Ok"
                    THEN [op |-> "forward", result |-> "Ok", proposed |-> proposed_htlc,
                          decision |-> r.decision,
                          replaced |-> IF key \in InFlight THEN {RecordOf(key)} ELSE {}]
                    ELSE [op |-> "forward", result |-> r.result, proposed |-> proposed_htlc]
          /\ admitted' = IF r.result = "Ok" THEN admitted \cup {key} ELSE admitted
          /\ duplicates' = (duplicates \/ (r.result = "Ok" /\ key \in admitted))
    /\ prev_buckets' = buckets
    /\ calls' = calls + 1
    /\ UNCHANGED <<now, overflow_checks, average, threads, mutex, returned>>

resolve_htlc(resolved_htlc) ==
    /\ ~aborted
    /\ calls < MaxCalls
    /\ LET r == resolve_htlc_result(resolved_htlc)
           key == <<resolved_htlc.incoming_channel, resolved_htlc.incoming_index>>
       IN /\ channel_reputation' = r.channel_reputation
          /\ target_channels' = r.target_channels
          /\ buckets' = r.buckets
          /\ aborted' = (r.result = "panic")
          /\ ret' = IF r.result = "Ok"
                    THEN [op |-> "resolve", result |-> "Ok", resolved |-> resolved_htlc,
                          in_flight |-> r.in_flight, taken |-> {r.in_flight}]
                    ELSE [op |-> "resolve", result |-> r.result, resolved |-> resolved_htlc,
                          taken |-> IF key \in InFlight /\ key \notin InFlightOf(r.channel_reputation)
                                    THEN {RecordOf(key)} ELSE {}]
          /\ admitted' = IF r.result = "Ok" THEN admitted \ {key} ELSE admitted
    /\ prev_buckets' = buckets
    /\ calls' = calls + 1
    /\ UNCHANGED <<now, overflow_checks, duplicates, average, threads, mutex, returned>>

\* time passes between two calls
Tick(d) ==
    /\ ~aborted
    /\ now + d <= MaxTime
    /\ now' = now + d
    /\ UNCHANGED <<channel_reputation, target_channels, buckets, overflow_checks,
                   aborted, calls, ret, prev_buckets, admitted, duplicates,
                   average, threads, mutex, returned>>

Next ==
    \/ \E p \in ProposedHTLCs : forward_htlc(p)
    \/ \E r \in ResolvedHTLCs : resolve_htlc(r)
    \/ \E d \in TickSteps : Tick(d)

Spec == Init /\ [][Next]_vars

----------------------------------------------------------------------------
(* One BucketResourceManager called directly through the ResourceBucketer   *)
(* trait, by callers that share it: a caller that panics inside add_htlc    *)
(* leaves the mutex poisoned for the others.                                *)

BucketAmounts == {0, 1, 2, U64Modulus - 1}

\* <<total_liquidity_msat, total_slots, protected_percentage>>
BucketConfigs == {<<2, 2, 0>>, <<4, 2, 50>>, <<8, 4, 50>>, <<4, 4, 100>>}

\* more than 483 slots, more than 100 percent, a liquidity whose product with the
\* percentage leaves the u64 range
OddBucketConfigs == {<<4, 484, 50>>, <<4, 2, 101>>, <<4, 484, 101>>,
                     <<(U64Modulus \div 100) + 1, 2, 100>>}

\* BucketResourceManager::new is called; where it fails or panics there is no
\* BucketResourceManager to call
InitBucket ==
    /\ now = 0
    /\ overflow_checks \in BOOLEAN
    /\ channel_reputation = EmptyMap
    /\ target_channels = EmptyMap
    /\ \E cfg \in BucketConfigs \cup OddBucketConfigs :
         LET n == BucketResourceManager_new(cfg[1], cfg[2], cfg[3])
             panics == /\ overflow_checks
                       /\ n.result = "Ok"
                       /\ BucketResourceManager_new_overflows(cfg[1], cfg[3])
         IN /\ buckets = IF n.result = "Ok" /\ ~panics
                         THEN [h \in {1} |-> n.bucket] ELSE EmptyMap
            /\ ret = [op |-> "new",
                      result |-> IF panics THEN "panic" ELSE n.result,
                      total_liquidity_msat |-> cfg[1], total_slots |-> cfg[2],
                      protected_percentage |-> cfg[3]]
    /\ aborted = FALSE
    /\ calls = 0
    /\ prev_buckets = buckets
    /\ admitted = {}
    /\ duplicates = FALSE
    /\ average = NoAverage
    /\ threads = EmptyMap
    /\ mutex = 0
    /\ returned = NoneReturned

add_htlc_call(protected, htlc_amount_msat) ==
    /\ 1 \in DOMAIN buckets
    /\ LET r == add_htlc(buckets[1], protected, htlc_amount_msat, overflow_checks)
       IN /\ buckets' = [buckets EXCEPT ![1] = r.bucket]
          /\ ret' = [op |-> "add_htlc", result |-> r.result, protected |-> protected,
                     amount |-> htlc_amount_msat]
    /\ prev_buckets' = buckets
    /\ UNCHANGED <<channel_reputation, target_channels, now, overflow_checks, aborted,
                   calls, admitted, duplicates, average, threads, mutex, returned>>

remove_htlc_call(protected, htlc_amount_msat) ==
    /\ 1 \in DOMAIN buckets
    /\ LET r == remove_htlc(buckets[1], protected, htlc_amount_msat)
       IN /\ buckets' = [buckets EXCEPT ![1] = r.bucket]
          /\ ret' = [op |-> "remove_htlc", result |-> r.result, protected |-> protected,
                     amount |-> htlc_amount_msat]
    /\ prev_buckets' = buckets
    /\ UNCHANGED <<channel_reputation, target_channels, now, overflow_checks, aborted,
                   calls, admitted, duplicates, average, threads, mutex, returned>>

NextBucket ==
    \/ \E protected \in BOOLEAN, a \in BucketAmounts : add_htlc_call(protected, a)
    \/ \E protected \in BOOLEAN, a \in BucketAmounts : remove_htlc_call(protected, a)

SpecBucket == InitBucket /\ [][NextBucket]_vars

----------------------------------------------------------------------------
(* One DecayingAverage used on its own: constructed, then add, add_time and   *)
(* get_value in any order while the clock advances.                          *)

\* half-lives: the 0 every tracker passes, and two whose half P/2 is whole seconds
AveragePeriods == {0, 2, 4}

\* DecayingAverageStart: no start value, or a value recorded at instant 0
AverageStarts == {[last_update |-> 0, value |-> 0], [last_update |-> 0, value |-> 4]}

AverageValues == {-2, 2}

InitAverage ==
    /\ now \in {0, 1}
    /\ overflow_checks = FALSE
    /\ channel_reputation = EmptyMap
    /\ target_channels = EmptyMap
    /\ buckets = EmptyMap
    /\ aborted = FALSE
    /\ calls = 0
    /\ \E period \in AveragePeriods, start_value \in AverageStarts :
         /\ average = DecayingAverage_new(period, start_value, now)
         /\ ret = [op |-> "new", start_value |-> start_value]
    /\ prev_buckets = buckets
    /\ admitted = {}
    /\ duplicates = FALSE
    /\ threads = EmptyMap
    /\ mutex = 0
    /\ returned = NoneReturned

\* DecayingAverage::add(value), which reads the clock
add_call(value) ==
    /\ calls < MaxCalls
    /\ average' = add(average, value, now)
    /\ ret' = [op |-> "add", value |-> value, at |-> now, before |-> average]
    /\ calls' = calls + 1
    /\ UNCHANGED <<channel_reputation, target_channels, buckets, now, overflow_checks,
                   aborted, prev_buckets, admitted, duplicates, threads, mutex, returned>>

\* DecayingAverage::add_time(value, specific_timestamp), any timestamp
add_time_call(value, specific_timestamp) ==
    /\ calls < MaxCalls
    /\ LET r == add_time(average, value, specific_timestamp)
       IN /\ average' = r.da
          /\ ret' = [op |-> "add_time", value |-> value, t |-> specific_timestamp,
                     result |-> IF r.ok THEN "Ok" ELSE "TimeAdditionError",
                     before |-> average]
    /\ calls' = calls + 1
    /\ UNCHANGED <<channel_reputation, target_channels, buckets, now, overflow_checks,
                   aborted, prev_buckets, admitted, duplicates, threads, mutex, returned>>

\* DecayingAverage::get_value(), which reads the clock
get_value_call ==
    /\ calls < MaxCalls
    /\ LET r == get_value(average, now)
       IN /\ average' = r.da
          /\ ret' = [op |-> "get_value", value |-> r.value, at |-> now,
                     before |-> average]
    /\ calls' = calls + 1
    /\ UNCHANGED <<channel_reputation, target_channels, buckets, now, overflow_checks,
                   aborted, prev_buckets, admitted, duplicates, threads, mutex, returned>>

\* the clock advances between two calls
Elapse(d) ==
    /\ now + d <= AverageMaxTime
    /\ now' = now + d
    /\ UNCHANGED <<channel_reputation, target_channels, buckets, overflow_checks,
                   aborted, calls, ret, prev_buckets, admitted, duplicates,
                   average, threads, mutex, returned>>

NextAverage ==
    \/ \E v \in AverageValues : add_call(v)
    \/ \E v \in AverageValues, t \in 0..AverageMaxTime : add_time_call(v, t)
    \/ get_value_call
    \/ \E d \in {1, 2} : Elapse(d)

SpecAverage == InitAverage /\ [][NextAverage]_vars

----------------------------------------------------------------------------
(* Claims about the DecayingAverage, under SpecAverage *)

\* C14: add_time(delta, t) fails with the time-order error iff t < last_update; for
\* every t >= last_update, t = last_update included, it succeeds, adds delta to the
\* value and sets last_update to t; when it fails, value and last_update are
\* unchanged.
C14_AddTimeErrorIff ==
    ret.op = "add_time" =>
        /\ (ret.result = "TimeAdditionError") <=> (ret.t < ret.before.last_update)
        /\ ret.result = "Ok" =>
              /\ average.value = update(ret.before, ret.t).value + ret.value
              /\ average.last_update = ret.t
        /\ ret.result = "TimeAdditionError" => average = ret.before

\* The part of C14 that the code keeps: the same for a timestamp other than
\* last_update
C14_AddTimeErrorIffOffTie ==
    (ret.op = "add_time" /\ ret.t # ret.before.last_update) => C14_AddTimeErrorIff

\* C15: every add(delta) takes effect: after it the value is the value decayed up
\* to now plus delta and last_update is now, for negative delta too and also when
\* now is the previous last_update.
C15_AddTakesEffect ==
    ret.op = "add" =>
        /\ average.value =
               decay(ret.before.value, ret.before.period, ret.at - ret.before.last_update)
                   + ret.value
        /\ average.last_update = ret.at

\* The part of C15 that the code keeps: an add later than last_update adds delta to
\* the value as it stood and sets last_update to now
C15_AddLaterThanLastUpdate ==
    (ret.op = "add" /\ ret.before.last_update < ret.at) =>
        /\ average.value = ret.before.value + ret.value
        /\ average.last_update = ret.at

\* C16: with period P and value v, no add in between, get_value returns v/2 once
\* P/2 seconds have passed since last_update, and returns v when no time has passed.
C16_HalfLife ==
    ret.op = "get_value" =>
        LET dt == ret.at - ret.before.last_update IN
        /\ (ret.before.period > 0 /\ 2 * dt = ret.before.period)
              => 2 * ret.value = ret.before.value
        /\ dt = 0 => ret.value = ret.before.value

\* What get_value does return: the value as it stood, whatever time has passed
C16_GetValueReturnsValue ==
    ret.op = "get_value" => (ret.value = ret.before.value /\ average = ret.before)

\* C17: over construct, add, add_time (any timestamp, accepted or refused) and
\* get_value on one DecayingAverage, last_update never decreases from a state to
\* the next.
C17_LastUpdateMonotone ==
    [][average'.last_update >= average.last_update]_vars

\* C17's case: add_time has been refused for a timestamp before last_update, which
\* an earlier write had moved forward
C17_Witness ==
    /\ ret.op = "add_time" /\ ret.result = "TimeAdditionError"
    /\ ret.t < average.last_update
    /\ average.last_update > 1

----------------------------------------------------------------------------
(* One BucketResourceManager shared by threads that call add_htlc(false, _)  *)
(* and remove_htlc(false, _) at the same time.  A call is three steps: it    *)
(* takes the lock (lines 65, 87), it runs the tests (lines 66-72, 88-94),    *)
(* it updates the counters and returns, dropping the guard (lines 74-78,     *)
(* 96-100).  A thread that panics in the tests dies holding the guard, which *)
(* poisons the mutex; the other threads go on.                               *)

Threads == {1, 2}

ThreadAmounts == {1, U64Modulus - 1}

Idle == [pc |-> "idle", op |-> "none", amount |-> 0]

InitThreads ==
    /\ now = 0
    /\ overflow_checks \in BOOLEAN
    /\ channel_reputation = EmptyMap
    /\ target_channels = EmptyMap
    /\ \E cfg \in {<<2, 2, 0>>, <<4, 2, 50>>} :
         buckets = [h \in {1} |-> BucketResourceManager_new(cfg[1], cfg[2], cfg[3]).bucket]
    /\ aborted = FALSE
    /\ calls = 0
    /\ ret = NoCall
    /\ prev_buckets = buckets
    /\ admitted = {}
    /\ duplicates = FALSE
    /\ average = NoAverage
    /\ threads = [t \in Threads |-> Idle]
    /\ mutex = 0
    /\ returned = NoneReturned

\* what the call of thread t does to the counters and returns, were it to run now
Outcome(t) ==
    IF threads[t].op = "add_htlc"
    THEN add_htlc(buckets[1], FALSE, threads[t].amount, overflow_checks)
    ELSE remove_htlc(buckets[1], FALSE, threads[t].amount)

\* thread t enters add_htlc or remove_htlc with protected = false
bucketer_call(t, op, htlc_amount_msat) ==
    /\ threads[t].pc = "idle"
    /\ calls < MaxCalls
    /\ threads' = [threads EXCEPT ![t] = [pc |-> "lock", op |-> op,
                                          amount |-> htlc_amount_msat]]
    /\ calls' = calls + 1
    /\ UNCHANGED <<channel_reputation, target_channels, buckets, now, overflow_checks,
                   aborted, ret, prev_buckets, admitted, duplicates, average, mutex,
                   returned>>

\* self.mut_bucket_resource_manager.lock(): on a poisoned mutex it is Err, the
\* if-let body is skipped and the call returns true / Ok(true)
mutex_lock(t) ==
    /\ threads[t].pc = "lock"
    /\ mutex = 0
    /\ IF buckets[1].poisoned
       THEN /\ threads' = [threads EXCEPT ![t] = Idle]
            /\ returned' = [returned EXCEPT ![threads[t].op] = @ + 1]
            /\ ret' = [op |-> threads[t].op, thread |-> t, amount |-> threads[t].amount,
                       result |-> Outcome(t).result]
            /\ UNCHANGED mutex
       ELSE /\ threads' = [threads EXCEPT ![t].pc = "test"]
            /\ mutex' = t
            /\ UNCHANGED <<returned, ret>>
    /\ UNCHANGED <<channel_reputation, target_channels, buckets, now, overflow_checks,
                   aborted, calls, prev_buckets, admitted, duplicates, average>>

\* the two tests of the call, under the lock: return false / Err, panic on the
\* overflowing sum, or go on to the update
admission_test(t) ==
    /\ threads[t].pc = "test"
    /\ mutex = t
    /\ IF Outcome(t).result = "panic"
       THEN /\ threads' = [threads EXCEPT ![t].pc = "panicked"]
            /\ buckets' = [buckets EXCEPT ![1] = Outcome(t).bucket]
            /\ mutex' = 0
            /\ ret' = [op |-> threads[t].op, thread |-> t, amount |-> threads[t].amount,
                       result |-> "panic"]
       ELSE IF Outcome(t).result \in {"true", "Ok"}
       THEN /\ threads' = [threads EXCEPT ![t].pc = "update"]
            /\ UNCHANGED <<buckets, mutex, ret>>
       ELSE /\ threads' = [threads EXCEPT ![t] = Idle]
            /\ mutex' = 0
            /\ ret' = [op |-> threads[t].op, thread |-> t, amount |-> threads[t].amount,
                       result |-> Outcome(t).result]
            /\ UNCHANGED buckets
    /\ UNCHANGED <<channel_reputation, target_channels, now, overflow_checks, aborted,
                   calls, prev_buckets, admitted, duplicates, average, returned>>

\* the update of both counters and the return, which drops the guard
counter_update(t) ==
    /\ threads[t].pc = "update"
    /\ mutex = t
    /\ buckets' = [buckets EXCEPT ![1] = Outcome(t).bucket]
    /\ prev_buckets' = buckets
    /\ threads' = [threads EXCEPT ![t] = Idle]
    /\ mutex' = 0
    /\ returned' = [returned EXCEPT ![threads[t].op] = @ + 1]
    /\ ret' = [op |-> threads[t].op, thread |-> t, amount |-> threads[t].amount,
               result |-> Outcome(t).result]
    /\ UNCHANGED <<channel_reputation, target_channels, now, overflow_checks, aborted,
                   calls, admitted, duplicates, average>>

NextThreads ==
    \/ \E t \in Threads, op \in {"add_htlc", "remove_htlc"}, a \in ThreadAmounts :
           bucketer_call(t, op, a)
    \/ \E t \in Threads : mutex_lock(t)
    \/ \E t \in Threads : admission_test(t)
    \/ \E t \in Threads : counter_update(t)

SpecThreads == InitThreads /\ [][NextThreads]_vars

----------------------------------------------------------------------------
(* Claims about the BucketResourceManager, under SpecBucket *)

\* Both counters of every BucketResourceManager
Counters(bs) ==
    [h \in DOMAIN bs |-> <<bs[h].in_flight_slots, bs[h].in_flight_liquidity_msat>>]

\* C2: in every state reachable by add_htlc and remove_htlc calls on a constructed
\* BucketResourceManager, 0 <= in_flight_slots <= general_slots and
\* 0 <= in_flight_liquidity_msat <= general_liquidity_msat.
C2_CountersWithinCaps ==
    \A h \in DOMAIN buckets :
        /\ 0 <= buckets[h].in_flight_slots
        /\ buckets[h].in_flight_slots <= buckets[h].general_slots
        /\ 0 <= buckets[h].in_flight_liquidity_msat
        /\ buckets[h].in_flight_liquidity_msat <= buckets[h].general_liquidity_msat

\* C2's case: a general add_htlc is refused by a bucket whose slots are all taken
\* while liquidity is left for it
C2_Witness ==
    /\ ret.op = "add_htlc" /\ ~ret.protected /\ ret.result = "false"
    /\ buckets[1].in_flight_slots = buckets[1].general_slots
    /\ buckets[1].general_slots > 0
    /\ buckets[1].in_flight_liquidity_msat + ret.amount <= buckets[1].general_liquidity_msat

\* C10: add_htlc(protected, amount) returns true with both counters unchanged when
\* protected; when not protected it returns true exactly when in_flight_liquidity +
\* amount <= general_liquidity and in_flight_slots + 1 <= general_slots, and then
\* in_flight_liquidity has grown by amount and in_flight_slots by 1; otherwise it
\* returns false with both counters unchanged.
C10_AddHtlcContract ==
    ret.op = "add_htlc" =>
        LET b == prev_buckets[1]
            after == buckets[1]
            same == /\ after.in_flight_liquidity_msat = b.in_flight_liquidity_msat
                    /\ after.in_flight_slots = b.in_flight_slots
        IN IF ret.protected THEN ret.result = "true" /\ same
           ELSE IF /\ b.in_flight_liquidity_msat + ret.amount <= b.general_liquidity_msat
                   /\ b.in_flight_slots + 1 <= b.general_slots
           THEN /\ ret.result = "true"
                /\ after.in_flight_liquidity_msat = b.in_flight_liquidity_msat + ret.amount
                /\ after.in_flight_slots = b.in_flight_slots + 1
           ELSE ret.result = "false" /\ same

\* The part of C10 that the code keeps: the contract for every call whose sum
\* in_flight_liquidity + amount fits the u64 range, on a mutex that is not poisoned
C10_AddHtlcContractNoOverflow ==
    (/\ ret.op = "add_htlc"
     /\ ~prev_buckets[1].poisoned
     /\ prev_buckets[1].in_flight_liquidity_msat + ret.amount < U64Modulus)
    => C10_AddHtlcContract

\* C10's case: a general HTLC admitted with the counter update
C10_Witness ==
    /\ ret.op = "add_htlc" /\ ~ret.protected /\ ret.result = "true" /\ ret.amount > 0
    /\ buckets[1].in_flight_slots = prev_buckets[1].in_flight_slots + 1

\* What C11 says of a step that is a remove_htlc call
RemoveHtlcContract ==
    LET b == buckets[1]
        after == buckets'[1]
        same == /\ after.in_flight_liquidity_msat = b.in_flight_liquidity_msat
                /\ after.in_flight_slots = b.in_flight_slots
    IN IF ret'.protected THEN ret'.result = "Ok" /\ same
       ELSE IF ret'.amount > b.in_flight_liquidity_msat
       THEN ret'.result = "NoInFlightLiquidity" /\ same
       ELSE IF b.in_flight_slots = 0
       THEN ret'.result = "NoHTLCSlotsOccupied" /\ same
       ELSE /\ ret'.result = "Ok"
            /\ after.in_flight_liquidity_msat = b.in_flight_liquidity_msat - ret'.amount
            /\ after.in_flight_slots = b.in_flight_slots - 1

\* The step is remove_htlc(false, a) right after add_htlc(false, a) returned true
RemoveAfterAdd ==
    /\ ret.op = "add_htlc" /\ ~ret.protected /\ ret.result = "true"
    /\ ret'.op = "remove_htlc" /\ ~ret'.protected /\ ret'.amount = ret.amount

\* C11: remove_htlc(protected, amount) returns Ok and changes nothing when protected;
\* when not protected it fails with NoInFlightLiquidity if amount > in_flight_liquidity,
\* with NoHTLCSlotsOccupied if in_flight_slots = 0, both counters unchanged, and
\* otherwise takes amount off in_flight_liquidity and 1 off in_flight_slots; and
\* remove_htlc(false, a) right after add_htlc(false, a) returned true returns Ok and
\* leaves both counters as they were before the add.
C11_RemoveHtlcContract ==
    [][/\ ret'.op = "remove_htlc" => RemoveHtlcContract
       /\ RemoveAfterAdd =>
             (ret'.result = "Ok" /\ Counters(buckets') = Counters(prev_buckets))]_vars

\* The part of C11 that the code keeps: the same on a mutex that is not poisoned,
\* the add's sum in_flight_liquidity + a having fitted the u64 range
C11_RemoveHtlcContractNoOverflow ==
    [][/\ (ret'.op = "remove_htlc" /\ ~buckets[1].poisoned) => RemoveHtlcContract
       /\ (/\ RemoveAfterAdd
           /\ ~buckets[1].poisoned
           /\ prev_buckets[1].in_flight_liquidity_msat + ret.amount < U64Modulus)
          => (ret'.result = "Ok" /\ Counters(buckets') = Counters(prev_buckets))]_vars

\* C11's case: remove_htlc(false, a) releases what add_htlc(false, a) booked
C11_Witness ==
    /\ ret.op = "remove_htlc" /\ ~ret.protected /\ ret.result = "Ok" /\ ret.amount > 0
    /\ buckets[1].in_flight_slots = prev_buckets[1].in_flight_slots - 1
    /\ buckets[1].in_flight_liquidity_msat =
           prev_buckets[1].in_flight_liquidity_msat - ret.amount

\* no thread is inside a call
Quiescent == \A t \in Threads : threads[t].pc \in {"idle", "panicked"}

\* C12 (under SpecThreads): with several threads calling add_htlc(false, _) and
\* remove_htlc(false, _) on one BucketResourceManager, in every interleaving the
\* counters stay within general_slots and general_liquidity, and whenever no call
\* is running in_flight_slots is the number of add_htlc calls that returned true
\* minus the number of remove_htlc calls that returned Ok.
C12_NoLostUpdate ==
    /\ buckets[1].in_flight_slots <= buckets[1].general_slots
    /\ buckets[1].in_flight_liquidity_msat <= buckets[1].general_liquidity_msat
    /\ Quiescent =>
          buckets[1].in_flight_slots = returned.add_htlc - returned.remove_htlc

\* The part of C12 that the code keeps: the same as long as no thread has
\* panicked holding the lock
C12_NoLostUpdateUnpoisoned ==
    ~buckets[1].poisoned => C12_NoLostUpdate

\* C12's case: two threads are inside add_htlc at once, one holding the lock in
\* front of its update, and the bucket has room for one of the two only
C12_Witness ==
    /\ threads[1].pc = "update" /\ threads[1].op = "add_htlc"
    /\ threads[2].pc = "lock" /\ threads[2].op = "add_htlc"
    /\ buckets[1].in_flight_slots + 1 = buckets[1].general_slots

\* C13: BucketResourceManager::new(total_liquidity, total_slots, protected_percentage)
\* fails with ProtocolLimits iff total_slots > 483, else with ProtectedPercentage iff
\* protected_percentage > 100, else succeeds with both in-flight counters 0,
\* general_slots = total_slots - total_slots * protected_percentage / 100 and
\* general_liquidity = total_liquidity - total_liquidity * protected_percentage / 100,
\* the divisions being integer divisions.
C13_NewContract ==
    ret.op = "new" =>
        IF ret.total_slots > MAX_SLOTS THEN ret.result = "ProtocolLimits"
        ELSE IF ret.protected_percentage > 100 THEN ret.result = "ProtectedPercentage"
        ELSE /\ ret.result = "Ok"
             /\ 1 \in DOMAIN buckets
             /\ buckets[1].in_flight_liquidity_msat = 0
             /\ buckets[1].in_flight_slots = 0
             /\ buckets[1].general_slots =
                    ret.total_slots - (ret.total_slots * ret.protected_percentage) \div 100
             /\ buckets[1].general_liquidity_msat =
                    ret.total_liquidity_msat
                        - (ret.total_liquidity_msat * ret.protected_percentage) \div 100

\* The part of C13 that the code keeps: the same for every total_liquidity whose
\* product with protected_percentage fits the u64 range
C13_NewContractNoOverflow ==
    (ret.op = "new"
     /\ ret.total_liquidity_msat * ret.protected_percentage < U64Modulus)
    => C13_NewContract

\* C13's case: new has succeeded with half of the slots protected
C13_Witness ==
    /\ ret.op = "new" /\ ret.result = "Ok"
    /\ ret.protected_percentage = 50 /\ buckets[1].general_slots = 1

----------------------------------------------------------------------------
(* Claims about the ResourceManager, under Spec *)

\* The step is a call of the handler op
Called(op) == calls' = calls + 1 /\ ret'.op = op

RECURSIVE SumAmounts(_)
SumAmounts(keys) ==
    IF keys = {} THEN 0
    ELSE LET k == CHOOSE x \in keys : TRUE
         IN RecordOf(k).proposed_htlc.outgoing_amount_msat + SumAmounts(keys \ {k})

\* C1: for an HTLC that forward_htlc admitted and resolve_htlc then resolved with
\* Ok, no other call in between, both counters of every BucketResourceManager are
\* after the resolve what they were before the forward.
C1_ForwardResolveRestoresCounters ==
    [][(/\ ret.op = "forward" /\ ret.result = "Ok"
        /\ Called("resolve") /\ ret'.result = "Ok"
        /\ ret'.resolved.incoming_channel = ret.proposed.incoming_channel
        /\ ret'.resolved.incoming_index = ret.proposed.incoming_index)
       => Counters(buckets') = Counters(prev_buckets)]_vars

\* C3: while the ResourceManager runs, the keys of each ReputationTracker's
\* in-flight map are exactly the indices forwarded with a decision and not resolved
\* with Ok since; a resolve_htlc that returns an error removes no entry.
C3_InFlightKeysAreAdmitted ==
    ~aborted => InFlight = admitted

\* C4: if no forward named a pair already in flight, each outgoing channel's
\* BucketResourceManager counts exactly the in-flight HTLCs recorded Unendorsed whose
\* outgoing_channel uses it, and holds the sum of their outgoing amounts.
C4_CountersMatchUnendorsedInFlight ==
    (~aborted /\ ~duplicates) =>
        \A oc \in DOMAIN target_channels :
            LET h == target_channels[oc].resource_buckets
                held == {k \in InFlight :
                            /\ RecordOf(k).outgoing_decision = "ForwardOutcomeUnendorsed"
                            /\ RecordOf(k).proposed_htlc.outgoing_channel \in DOMAIN target_channels
                            /\ target_channels[RecordOf(k).proposed_htlc.outgoing_channel]
                                   .resource_buckets = h}
            IN /\ buckets[h].in_flight_slots = Cardinality(held)
               /\ buckets[h].in_flight_liquidity_msat = SumAmounts(held)

\* C5: forward_htlc returns an error iff the outgoing amount is above
\* MAX_MILLI_SATOSHI, or no ReputationTracker is registered under incoming_channel,
\* or no TargetChannelTracker is registered under outgoing_channel; when it succeeds
\* the reservation is made in the allocator of the tracker under outgoing_channel.
C5_ForwardErrorIff ==
    ret.op = "forward" =>
        LET p == ret.proposed
            refused == \/ p.outgoing_amount_msat > MAX_MILLI_SATOSHI
                       \/ p.incoming_channel \notin DOMAIN channel_reputation
                       \/ p.outgoing_channel \notin DOMAIN target_channels
        IN /\ (ret.result = "Err") <=> refused
           /\ ret.result = "Ok" =>
                \A h \in DOMAIN buckets :
                    h # target_channels[p.outgoing_channel].resource_buckets
                        => buckets[h] = prev_buckets[h]

\* C6: a resolve_htlc that returns an error leaves every in-flight map, every
\* revenue average and every bucket counter as it was.
C6_ResolveErrorChangesNothing ==
    [][(Called("resolve") /\ ret'.result = "Err")
       => /\ channel_reputation' = channel_reputation
          /\ target_channels' = target_channels
          /\ buckets' = buckets]_vars

\* C7: a forward_htlc that returns an error leaves every bucket counter, every
\* in-flight map and every revenue average as it was: no reservation is booked
\* for an HTLC whose forward reported failure.
C7_ForwardErrorChangesNothing ==
    [][(Called("forward") /\ ret'.result = "Err")
       => /\ channel_reputation' = channel_reputation
          /\ target_channels' = target_channels
          /\ buckets' = buckets]_vars

\* C7's case: forward_htlc has returned an error while a reservation of an earlier
\* HTLC is booked and its record is in flight
C7_Witness ==
    /\ ret.op = "forward" /\ ret.result = "Err"
    /\ InFlight # {}
    /\ \E h \in DOMAIN buckets : buckets[h].in_flight_slots > 0

\* C8: resolve_htlc returns an error iff no ReputationTracker is registered under
\* incoming_channel, or incoming_index is not in its in-flight map, or the recorded
\* outcome is NoResources, or the recorded outgoing_channel differs from the
\* resolution's; otherwise it returns the recorded InFlightHTLC.
C8_ResolveErrorIff ==
    [][Called("resolve") =>
        LET r == ret'.resolved
            known == r.incoming_channel \in DOMAIN channel_reputation
            found == known /\ r.incoming_index
                               \in DOMAIN channel_reputation[r.incoming_channel].in_flight_htlcs
            rec == channel_reputation[r.incoming_channel].in_flight_htlcs[r.incoming_index]
            refused == \/ ~found
                       \/ rec.outgoing_decision = "ForwardOutcomeNoResources"
                       \/ rec.proposed_htlc.outgoing_channel # r.outgoing_channel
        IN /\ (ret'.result = "Err") <=> refused
           /\ ~refused => (ret'.result = "Ok" /\ ret'.in_flight = rec)]_vars

\* The part of C8 that the code keeps: the same, for the calls that return
C8_ResolveErrorIffWhenItReturns ==
    [][(Called("resolve") /\ ret'.result # "panic") =>
        LET r == ret'.resolved
            known == r.incoming_channel \in DOMAIN channel_reputation
            found == known /\ r.incoming_index
                               \in DOMAIN channel_reputation[r.incoming_channel].in_flight_htlcs
            rec == channel_reputation[r.incoming_channel].in_flight_htlcs[r.incoming_index]
            refused == \/ ~found
                       \/ rec.outgoing_decision = "ForwardOutcomeNoResources"
                       \/ rec.proposed_htlc.outgoing_channel # r.outgoing_channel
        IN /\ (ret'.result = "Err") <=> refused
           /\ ~refused => (ret'.result = "Ok" /\ ret'.in_flight = rec)]_vars

\* C9: the outcome forward_htlc returns is decided by the four scalars of the
\* reputation check, the endorsement and the bucket's answer: with protected =
\* (incoming_revenue > outgoing_revenue + in_flight_risk + htlc_risk) and endorsement
\* True, it is NoResources iff the bucket refused (a general HTLC whose admission
\* moved no counter), Endorsed iff admitted and protected, Unendorsed otherwise.
C9_OutcomeClassification ==
    (ret.op = "forward" /\ ret.result = "Ok") =>
        LET chk == ret.decision.reputation_check
            protected ==
                /\ chk.incoming_reputation.incoming_revenue >
                       chk.outgoing_revenue + chk.incoming_reputation.in_flight_risk
                           + chk.htlc_risk
                /\ ret.proposed.incoming_endorsed = "EndorsementTrue"
            can_forward == protected \/ Counters(buckets) # Counters(prev_buckets)
        IN /\ ret.decision.forward_outcome =
                  IF ~can_forward THEN "ForwardOutcomeNoResources"
                  ELSE IF protected THEN "ForwardOutcomeEndorsed"
                  ELSE "ForwardOutcomeUnendorsed"
           /\ protected => Counters(buckets) = Counters(prev_buckets)

\* C9's cases: an endorsed HTLC of a channel with sufficient reputation comes out
\* Endorsed ...
C9_Witness ==
    /\ ret.op = "forward" /\ ret.result = "Ok"
    /\ ret.decision.forward_outcome = "ForwardOutcomeEndorsed"
    /\ ret.decision.reputation_check.incoming_reputation.incoming_revenue > 0

\* ... and an endorsed HTLC whose check is a tie comes out Unendorsed
C9_WitnessTie ==
    /\ ret.op = "forward" /\ ret.result = "Ok"
    /\ ret.proposed.incoming_endorsed = "EndorsementTrue"
    /\ ret.decision.forward_outcome = "ForwardOutcomeUnendorsed"
    /\ ret.decision.reputation_check.incoming_reputation.incoming_revenue =
           ret.decision.reputation_check.outgoing_revenue
               + ret.decision.reputation_check.incoming_reputation.in_flight_risk
               + ret.decision.reputation_check.htlc_risk

\* The record a resolve_htlc call is about to take out of the in-flight map
Resolving == channel_reputation[ret'.resolved.incoming_channel]
                 .in_flight_htlcs[ret'.resolved.incoming_index]

\* The step is a resolve_htlc call for an index that is in flight
ResolvesInFlight ==
    /\ Called("resolve")
    /\ <<ret'.resolved.incoming_channel, ret'.resolved.incoming_index>> \in InFlight

\* C18: forward_htlc of an HTLC with endorsement True, followed at once by
\* resolve_htlc with success = true and no time elapsed (r_time = 0), changes the
\* revenue of the incoming channel's ReputationTracker by exactly 2 * forwarding_fee.
C18_FastEndorsedSuccessEarnsTwiceFee ==
    [][(/\ ret.op = "forward" /\ ret.result = "Ok"
        /\ ret.proposed.incoming_endorsed = "EndorsementTrue"
        /\ ret.decision.forward_outcome # "ForwardOutcomeNoResources"
        /\ ResolvesInFlight
        /\ ret'.resolved.incoming_channel = ret.proposed.incoming_channel
        /\ ret'.resolved.incoming_index = ret.proposed.incoming_index
        /\ ret'.resolved.outgoing_channel = ret.proposed.outgoing_channel
        /\ ret'.resolved.success
        /\ ret'.resolved.timestamp_settled = Resolving.timestamp_added)
       => channel_reputation'[ret.proposed.incoming_channel].revenue.value =
              channel_reputation[ret.proposed.incoming_channel].revenue.value
                  + 2 * forwarding_fee(ret.proposed)]_vars

\* C19: when resolve_htlc resolves an HTLC recorded Endorsed, the incoming channel's
\* in_flight_htlc_risk after the call is its value before the call minus exactly
\* outstanding_risk of that HTLC, and every other in-flight record of the channel is
\* still there, unchanged.
C19_EndorsedResolveLowersRisk ==
    [][(ResolvesInFlight /\ Resolving.outgoing_decision = "ForwardOutcomeEndorsed")
       => LET ic == ret'.resolved.incoming_channel
              before == channel_reputation[ic]
              after == channel_reputation'[ic]
          IN /\ in_flight_htlc_risk(after) =
                    in_flight_htlc_risk(before)
                        - outstanding_risk(before.block_time, Resolving.proposed_htlc,
                                           before.resolution_period)
             /\ \A i \in DOMAIN before.in_flight_htlcs \ {ret'.resolved.incoming_index} :
                    /\ i \in DOMAIN after.in_flight_htlcs
                    /\ after.in_flight_htlcs[i] = before.in_flight_htlcs[i]]_vars

\* C19's case: an HTLC recorded Endorsed, of risk above 0, has been resolved while
\* another HTLC of the channel that carries risk stays in flight
C19_Witness ==
    /\ ret.op = "resolve"
    /\ \E rec \in ret.taken :
          /\ rec.outgoing_decision = "ForwardOutcomeEndorsed"
          /\ outstanding_risk(BLOCK_TIME, rec.proposed_htlc, RESOLUTION_PERIOD) > 0
    /\ in_flight_htlc_risk(channel_reputation[ret.resolved.incoming_channel]) > 0

C21_EffectiveFeesTable ==
    [][ResolvesInFlight
       => LET ic == ret'.resolved.incoming_channel
              P == channel_reputation[ic].resolution_period
              r_time == resolution_time_of(ret'.resolved.timestamp_settled, Resolving)
              fee == Resolving.proposed_htlc.incoming_amount_msat
                         - Resolving.proposed_htlc.outgoing_amount_msat
              endorsed == Resolving.proposed_htlc.incoming_endorsed = "EndorsementTrue"
              success == ret'.resolved.success
              P_times_added ==
                  IF endorsed /\ success THEN P * fee - (r_time - P) * fee
                  ELSE IF endorsed THEN (-1) * (r_time - P) * fee
                  ELSE IF success /\ r_time <= P THEN P * fee
                  ELSE 0
          IN P * channel_reputation'[ic].revenue.value =
                 P * channel_reputation[ic].revenue.value + P_times_added]_vars

\* The part of C21 that the code keeps: the three cases of an HTLC that is not
\* endorsed, resolve_htlc being called later than the revenue's last update
C21_EffectiveFeesNotEndorsed ==
    [][(/\ ResolvesInFlight
        /\ Resolving.proposed_htlc.incoming_endorsed # "EndorsementTrue"
        /\ ~forwarding_fee_overflows(Resolving.proposed_htlc)
        /\ ret'.result # "panic"
        /\ channel_reputation[ret'.resolved.incoming_channel].revenue.last_update < now)
       => LET ic == ret'.resolved.incoming_channel
              r_time == resolution_time_of(ret'.resolved.timestamp_settled, Resolving)
          IN channel_reputation'[ic].revenue.value =
                 channel_reputation[ic].revenue.value
                     + (IF ret'.resolved.success
                           /\ r_time <= channel_reputation[ic].resolution_period
                        THEN forwarding_fee(Resolving.proposed_htlc) ELSE 0)]_vars

\* C22: if remove_htlc returns an error while resolve_htlc releases the HTLC's
\* reservation, resolve_htlc returns an error: it never returns Ok after a bucket
\* release that failed.
C22_FailedReleaseIsAnError ==
    [][(/\ ResolvesInFlight
        /\ Resolving.outgoing_decision # "ForwardOutcomeNoResources"
        /\ Resolving.proposed_htlc.outgoing_channel = ret'.resolved.outgoing_channel
        /\ ret'.resolved.outgoing_channel \in DOMAIN target_channels
        /\ remove_htlc(buckets[target_channels[ret'.resolved.outgoing_channel]
                                   .resource_buckets],
                       Resolving.outgoing_decision = "ForwardOutcomeEndorsed",
                       Resolving.proposed_htlc.outgoing_amount_msat).result # "Ok")
       => ret'.result # "Ok"]_vars

\* C23: forward_htlc and resolve_htlc never abort: neither panics, and no unsigned
\* subtraction or addition wraps, for a ProposedHTLC with outgoing_amount above
\* incoming_amount and for a resolution with r_time below resolution_period too.
C23_NeverAborts ==
    /\ ~aborted
    /\ (ret.op = "forward" /\ ret.result = "Ok")
          => ~forwarding_fee_overflows(ret.proposed)
    /\ ret.op = "resolve" =>
          \A rec \in ret.taken :
              /\ ~forwarding_fee_overflows(rec.proposed_htlc)
              /\ ~effective_fees_overflows(RESOLUTION_PERIOD,
                                           ret.resolved.timestamp_settled, rec)

\* what a record contributes to in_flight_htlc_risk
RiskOfRecord(rep, rec) ==
    IF rec.proposed_htlc.incoming_endorsed # "EndorsementTrue" THEN 0
    ELSE outstanding_risk(rep.block_time, rec.proposed_htlc, rep.resolution_period)

RECURSIVE SumRiskOfRecords(_, _)
SumRiskOfRecords(rep, recs) ==
    IF recs = {} THEN 0
    ELSE LET rec == CHOOSE x \in recs : TRUE
         IN RiskOfRecord(rep, rec) + SumRiskOfRecords(rep, recs \ {rec})

\* C24: forward_htlc records the HTLC in the incoming channel's in-flight map for
\* every outcome, NoResources included: the record of an HTLC with endorsement True
\* adds its outstanding_risk to the channel's in_flight_risk whatever the outcome,
\* every forward decision is taken on the in_flight_risk of the records then in the
\* map, and a record with outcome NoResources stays as it is until resolve_htlc (or
\* another forward_htlc) is called for its index.
C24_NoResourcesIsRecorded ==
    [][/\ (Called("forward") /\ ret'.result = "Ok")
          => LET p == ret'.proposed
                 before == channel_reputation[p.incoming_channel]
                 after == channel_reputation'[p.incoming_channel]
             IN /\ p.incoming_index \in DOMAIN after.in_flight_htlcs
                /\ after.in_flight_htlcs[p.incoming_index].outgoing_decision
                       = ret'.decision.forward_outcome
                /\ after.in_flight_htlcs[p.incoming_index].proposed_htlc = p
                /\ ret'.decision.reputation_check.incoming_reputation.in_flight_risk
                       = in_flight_htlc_risk(before)
                /\ in_flight_htlc_risk(after) =
                       in_flight_htlc_risk(before)
                           - SumRiskOfRecords(before, ret'.replaced)
                           + RiskOfRecord(after, after.in_flight_htlcs[p.incoming_index])
       /\ \A key \in InFlight :
             (/\ RecordOf(key).outgoing_decision = "ForwardOutcomeNoResources"
              /\ \/ key \notin InFlightOf(channel_reputation')
                 \/ channel_reputation'[key[1]].in_flight_htlcs[key[2]] # RecordOf(key))
             => \/ /\ Called("resolve")
                   /\ key = <<ret'.resolved.incoming_channel, ret'.resolved.incoming_index>>
                \/ /\ Called("forward")
                   /\ key = <<ret'.proposed.incoming_channel, ret'.proposed.incoming_index>>
      ]_vars

\* Witness for C24: an HTLC with endorsement True has just been refused with
\* NoResources at an index that was free; it is in the map and the channel's
\* in_flight_risk has grown
C24_Witness ==
    /\ ret.op = "forward" /\ ret.result = "Ok"
    /\ ret.decision.forward_outcome = "ForwardOutcomeNoResources"
    /\ ret.proposed.incoming_endorsed = "EndorsementTrue"
    /\ ret.replaced = {}
    /\ <<ret.proposed.incoming_channel, ret.proposed.incoming_index>> \in InFlight
    /\ in_flight_htlc_risk(channel_reputation[ret.proposed.incoming_channel])
          > ret.decision.reputation_check.incoming_reputation.in_flight_risk

\* a later forward decision counts the risk of a refused HTLC that is still recorded
C24_WitnessLaterDecision ==
    /\ ret.op = "forward" /\ ret.result = "Ok"
    /\ ret.decision.reputation_check.incoming_reputation.in_flight_risk > 0
    /\ \E key \in InFlight :
          /\ key[1] = ret.proposed.incoming_channel
          /\ key[2] # ret.proposed.incoming_index
          /\ RecordOf(key).outgoing_decision = "ForwardOutcomeNoResources"
          /\ RecordOf(key).proposed_htlc.incoming_endorsed = "EndorsementTrue"

\* the last call was a forward_htlc with outcome Unendorsed
ForwardedUnendorsed(r) ==
    /\ r.op = "forward" /\ r.result = "Ok"
    /\ r.decision.forward_outcome = "ForwardOutcomeUnendorsed"

\* the last call was a forward_htlc with outcome Unendorsed that replaced the record
\* of an earlier forward with outcome Unendorsed
ReplacedUnendorsed ==
    /\ ForwardedUnendorsed(ret)
    /\ ret.replaced # {}
    /\ \A rec \in ret.replaced : rec.outgoing_decision = "ForwardOutcomeUnendorsed"

\* the allocator forward_htlc books an HTLC of this incoming channel in
BookedIn(incoming_channel) == target_channels[incoming_channel].resource_buckets

\* The two halves of C25 for two forwards that follow each other: after the second
\* the slots are 2 higher than before the first and the map holds one entry; after the
\* single resolve the slots are where they were between the two forwards, that is
\* 1 higher than before both, and the index is out of the map
DuplicateForwardBooksTwice ==
    (/\ ForwardedUnendorsed(ret)
     /\ Called("forward")
     /\ ForwardedUnendorsed(ret')
     /\ ret'.proposed.incoming_channel = ret.proposed.incoming_channel
     /\ ret'.proposed.incoming_index = ret.proposed.incoming_index)
    => LET h == BookedIn(ret.proposed.incoming_channel)
       IN /\ buckets'[h].in_flight_slots = prev_buckets[h].in_flight_slots + 2
          /\ ret'.replaced # {}
          /\ InFlightOf(channel_reputation') = InFlight

ResolveAfterDuplicateLeavesOne ==
    (/\ ReplacedUnendorsed
     /\ Called("resolve")
     /\ ret'.result = "Ok"
     /\ ret'.resolved.incoming_channel = ret.proposed.incoming_channel
     /\ ret'.resolved.incoming_index = ret.proposed.incoming_index)
    => LET h == BookedIn(ret.proposed.incoming_channel)
       IN /\ buckets'[h].in_flight_slots = prev_buckets[h].in_flight_slots
          /\ buckets[h].in_flight_slots = prev_buckets[h].in_flight_slots + 1
          /\ <<ret.proposed.incoming_channel, ret.proposed.incoming_index>>
                 \notin InFlightOf(channel_reputation')

\* C25: forward_htlc for an (incoming_channel, incoming_index) that is already in
\* flight replaces the record without releasing the earlier reservation: when both
\* forwards had outcome Unendorsed, in_flight_slots has grown by 2 while the map
\* holds one entry, and after the single resolve_htlc the map allows in_flight_slots
\* stays 1 higher than before the two forwards, with no entry left to release it.
C25_DuplicateForwardLeaksOneSlot ==
    [][DuplicateForwardBooksTwice /\ ResolveAfterDuplicateLeavesOne]_vars

\* The part of C25 the code keeps: the two forwards book twice whatever the route,
\* and the resolve leaves 1 slot behind when the HTLC goes out on the channel it came
\* in on, the one route where the release reaches the allocator that booked it
C25_DuplicateForwardLeaksOneSlotSameChannel ==
    [][/\ DuplicateForwardBooksTwice
       /\ ret.op = "forward" /\ ret.proposed.incoming_channel = ret.proposed.outgoing_channel
             => ResolveAfterDuplicateLeavesOne]_vars

C25_WitnessSameChannel ==
    /\ ret.op = "resolve" /\ ret.result = "Ok"
    /\ ret.resolved.incoming_channel = ret.resolved.outgoing_channel
    /\ ret.in_flight.outgoing_decision = "ForwardOutcomeUnendorsed"
    /\ duplicates
    /\ InFlight = {}
    /\ buckets[BookedIn(ret.resolved.incoming_channel)].in_flight_slots = 1

====
